---- MODULE Spec2Model ----
(***************************************************************************)
(* A model of longoverdue.py: the lsof listing parser and ps correlator    *)
(* (getprocs), the commands list, restart and info, and the pure helpers   *)
(* they use (PATH_REGEX, decode_nuld, str.split, os.path.splitext, ...).   *)
(* Python strings are TLA+ strings; s[i] is SubSeq(s, i, i).               *)
(***************************************************************************)
EXTENDS Integers, Sequences, FiniteSets, TLC

VARIABLES
    cmd,            \* the click subcommand being run: "list", "restart", "info"
    euid,           \* os.geteuid()
    pc,             \* position of the run in the program
    error,          \* the exception that ended the run, or None
    pids,           \* getprocs' argument / local `pids`
    line,           \* the loop variable l of getprocs' parsing loop
    nread,          \* number of lines of lsof's output consumed so far
    procs,          \* getprocs' local `procs` and then its return value
    parsed,         \* history: procs as it was when the parsing loop ended
    units,          \* lines of ps' output
    calls,          \* history: the external invocations, in order
    uunits,         \* list_: dict user -> processes (insertion ordered)
    services,       \* list_: list of processes
    others,         \* list_: dict user -> processes (insertion ordered)
    userservices,   \* restart: set of unit names
    sysservices,    \* restart: the local `services`, a set of unit names
    out,            \* what the command printed
    raw,            \* the raw path handed to PATH_REGEX
    name1,          \* PATH_REGEX applied to raw
    name2,          \* PATH_REGEX applied to name1
    procsB,         \* a second getprocs result, a permutation of procs
    outB,           \* what list_ printed for procsB
    verbose         \* list_'s --verbose flag

vars == <<cmd, euid, pc, error, pids, line, nread, procs, parsed, units, calls,
          uunits, services, others, userservices, sysservices, out,
          raw, name1, name2, procsB, outB, verbose>>

\* Python's None: no string split() or a regex group can return
None == "<None>"

\* Bound: the number of lines of lsof output a run reads
MaxLines == 4

\* Bound: the number of annotation-like groups appended to a raw path
MaxGroups == 2

\* Bound: the number of processes handed to the reporter
MaxProcs == 3

---------------------------------------------------------------------------
(* Python str primitives *)

Char(s, i) == SubSeq(s, i, i)

Min(S) == CHOOSE x \in S : \A y \in S : x <= y

Max(S) == CHOOSE x \in S : \A y \in S : x >= y

startswith(s, p) == Len(s) >= Len(p) /\ SubSeq(s, 1, Len(p)) = p

endswith(s, p) == Len(s) >= Len(p) /\ SubSeq(s, Len(s) - Len(p) + 1, Len(s)) = p

\* s.rfind(c) for a one-character c, 1-based; 0 where Python returns -1
rfind(s, c) == Max({0} \cup {i \in 1..Len(s) : Char(s, i) = c})

\* \d+
IsDigits(s) ==
    /\ Len(s) >= 1
    /\ \A i \in 1..Len(s) :
          Char(s, i) \in {"0", "1", "2", "3", "4", "5", "6", "7", "8", "9"}

\* r matches  \((?:(?:path dev=(\d+),(\d+)|deleted))\)  preceded by a space
MatchesAnnotation(r) ==
    \/ r = " (deleted)"
    \/ /\ startswith(r, " (path dev=")
       /\ endswith(r, ")")
       /\ LET m == SubSeq(r, Len(" (path dev=") + 1, Len(r) - 1)
          IN  \E k \in 1..Len(m) :
                 /\ Char(m, k) = ","
                 /\ IsDigits(SubSeq(m, 1, k - 1))
                 /\ IsDigits(SubSeq(m, k + 1, Len(m)))

\* PATH_REGEX with a greedy reading of the annotation: every trailing
\* annotation group is cut off
RECURSIVE PATH_REGEX_greedy(_)
PATH_REGEX_greedy(n) ==
    LET ends == {i \in 0..(Len(n) - 1) : MatchesAnnotation(SubSeq(n, i + 1, Len(n)))}
    IN  IF ends = {} THEN n ELSE PATH_REGEX_greedy(SubSeq(n, 1, Min(ends)))

\* re.match(PATH_REGEX, n)["path"]: the lazy group takes the shortest prefix
\* after which the optional annotation group reaches the end of the string
PATH_REGEX(n) ==
    LET ends == {i \in 0..Len(n) :
                    \/ i = Len(n)
                    \/ MatchesAnnotation(SubSeq(n, i + 1, Len(n)))}
    IN  SubSeq(n, 1, Min(ends))

\* os.path.basename
basename(p) == SubSeq(p, rfind(p, "/") + 1, Len(p))

\* os.path.splitext(p)[1]: the extension starts at the last dot of the last
\* path component, unless that component has only dots before it
splitext1(p) ==
    LET sepIndex == rfind(p, "/")
        dotIndex == rfind(p, ".")
    IN  IF /\ dotIndex > sepIndex
           /\ \E filenameIndex \in (sepIndex + 1)..(dotIndex - 1) :
                 Char(p, filenameIndex) # "."
        THEN SubSeq(p, dotIndex, Len(p))
        ELSE ""

\* str.split(): the maximal runs of non-blank characters
RECURSIVE split(_)
split(s) ==
    IF s = "" THEN <<>>
    ELSE IF Char(s, 1) = " " THEN split(Tail(s))
    ELSE LET blanks == {i \in 1..Len(s) : Char(s, i) = " "}
             n == IF blanks = {} THEN Len(s) + 1 ELSE Min(blanks)
         IN  <<SubSeq(s, 1, n - 1)>> \o split(SubSeq(s, n, Len(s)))

---------------------------------------------------------------------------
(* Static configuration *)

NO_AUTORESTART == {"dbus.service", "systemd-logind.service"}

FILE_BLACKLIST == {}

EXT_BLACKLIST == {".cache", ".gresource"}

\* The files lsof reports: kept ones, one outside /usr, one with an excluded
\* extension, and a dot-file, whose splitext extension is empty
LsofNames ==
    {"/usr/a.so (deleted)", "/usr/.cache (path dev=8,1)",
     "/tmp/a.so (deleted)", "/usr/a.cache (deleted)"}

\* The lines of lsof -F0 output, each already cut at its NULs into fields:
\* process sets, file sets, a file set without a name field and a file set
\* with an empty field
LsofLines ==
    {<<"p1", "chttpd", "Lroot">>, <<"p2", "cbash", "Lalice">>}
    \cup {<<"fDEL", "n" \o n>> : n \in LsofNames}
    \cup {<<"fDEL", "tREG">>, <<"fDEL", "", "n/usr/a.so (deleted)">>}

\* The lines of ps -o unit=,uunit= output
PsLines ==
    {"a.service -", "dbus.service    -", "session-2.scope -",
     "user@1.service a.service", "user@1.service dbus.service",
     "user@1.service init.scope", "-"}

\* What pgrep prints on success
PgrepResults == {{"1"}, {"2", "3"}}

Commands == {"list", "restart", "info"}

RECURSIVE SeqsUpTo(_, _)
SeqsUpTo(S, n) ==
    IF n = 0 THEN {<<>>}
    ELSE LET shorter == SeqsUpTo(S, n - 1)
         IN  shorter \cup {Append(q, x) : q \in shorter, x \in S}

Range(q) == {q[i] : i \in DOMAIN q}

\* What ps prints when asked about n pids: up to n lines, or one line more
\* (zip never reads that line)
PsOutputs(n) ==
    SeqsUpTo(PsLines, n)
    \cup {Append(q, "a.service -") : q \in {u \in SeqsUpTo(PsLines, n) : Len(u) = n}}

---------------------------------------------------------------------------
(* Records *)

\* decode_nuld raises IndexError on an empty field (i[0])
DecodeFails(l) == \E i \in DOMAIN l : l[i] = ""

\* dict((i[0], i[1:]) for i in fields): a later field overwrites an earlier
decode_nuld(l) ==
    [k \in {Char(l[i], 1) : i \in DOMAIN l} |->
        Tail(l[Max({i \in DOMAIN l : Char(l[i], 1) = k})])]

Get(d, k) == IF k \in DOMAIN d THEN d[k] ELSE None

\* class Process (the fields parent, uid and gid are never read)
Process(proc) ==
    [pid |-> Get(proc, "p"), command |-> Get(proc, "c"), user |-> Get(proc, "L"),
     unit |-> None, uunit |-> None, files |-> <<>>]

\* class File (only the name is ever read)
File(f) == [name |-> PATH_REGEX(Get(f, "n"))]

---------------------------------------------------------------------------
(* getprocs *)

\* A failing step: info catches CalledProcessError around getprocs, every
\* other exception ends the program with a traceback
Raise(e) ==
    IF cmd = "info" /\ e = "CalledProcessError"
    THEN /\ pc' = "exit1"
         /\ error' = None
         /\ out' = Append(out, "Couldn't retrieve process info.")
    ELSE /\ pc' = "crash"
         /\ error' = e
         /\ out' = out

Call(tool, argv, unitset, ok) ==
    calls' = Append(calls, [tool |-> tool, argv |-> argv, units |-> unitset, ok |-> ok])

\* DiscardLast without the pop
DiscardLast_keep(ps) == ps

\* if procs and not procs[-1].files: procs.pop()
DiscardLast(ps) ==
    IF ps # <<>> /\ ps[Len(ps)].files = <<>> THEN SubSeq(ps, 1, Len(ps) - 1) ELSE ps

\* Kept without the extension test
Kept_noext(f) ==
    /\ startswith(f.name, "/usr")
    /\ basename(f.name) \notin FILE_BLACKLIST

\* The three tests a file passes to be attached to a process
Kept(f) ==
    /\ startswith(f.name, "/usr")
    /\ basename(f.name) \notin FILE_BLACKLIST
    /\ splitext1(f.name) \notin EXT_BLACKLIST

\* procs[-1].files.append(f)
AttachFile(ps, f) ==
    [ps EXCEPT ![Len(ps)].files = Append(@, f)]

\* [p for p in procs if p.pid in pids]
RECURSIVE FilterPids(_, _)
FilterPids(ps, ids) ==
    IF ps = <<>> THEN <<>>
    ELSE IF Head(ps).pid \in ids
         THEN <<Head(ps)>> \o FilterPids(Tail(ps), ids)
         ELSE FilterPids(Tail(ps), ids)

\* zip(procs, units): the pairs up to the shorter of the two
ZipLen(ps, us) == IF Len(ps) <= Len(us) THEN Len(ps) ELSE Len(us)

\* for proc, (unit, uunit) in zip(procs, units): assign both fields
Correlate(ps, us) ==
    [i \in 1..Len(ps) |->
        IF i <= ZipLen(ps, us)
        THEN [ps[i] EXCEPT !.unit = split(us[i])[1], !.uunit = split(us[i])[2]]
        ELSE ps[i]]

\* subprocess.run(["lsof", "-dDEL", "-F0"], check=True)
Lsof ==
    /\ pc = "lsof"
    /\ \E ok \in BOOLEAN :
          /\ Call("lsof", <<"-dDEL", "-F0">>, {}, ok)
          /\ IF ok THEN pc' = "parse" /\ UNCHANGED <<error, out>>
                   ELSE Raise("CalledProcessError")
    /\ UNCHANGED <<cmd, euid, pids, line, nread, procs, parsed, units, uunits,
                   services, others, userservices, sysservices,
                   raw, name1, name2, procsB, outB, verbose>>

\* One iteration of  for l in lsof.stdout...splitlines()
ParseLine ==
    /\ pc = "parse"
    /\ nread < MaxLines
    /\ \E l \in LsofLines :
          /\ line' = l
          /\ nread' = nread + 1
          /\ IF Char(l[1], 1) = "p"
             THEN IF DecodeFails(l)
                  THEN Raise("IndexError") /\ procs' = procs
                  ELSE /\ procs' = Append(DiscardLast(procs), Process(decode_nuld(l)))
                       /\ UNCHANGED <<pc, error, out>>
             ELSE IF Char(l[1], 1) = "f"
             THEN IF DecodeFails(l)
                  THEN Raise("IndexError") /\ procs' = procs
                  ELSE IF Get(decode_nuld(l), "n") = None
                  THEN Raise("TypeError") /\ procs' = procs
                  ELSE IF ~Kept(File(decode_nuld(l)))
                  THEN UNCHANGED <<pc, error, out, procs>>
                  ELSE IF procs = <<>>
                  THEN Raise("IndexError") /\ procs' = procs
                  ELSE /\ procs' = AttachFile(procs, File(decode_nuld(l)))
                       /\ UNCHANGED <<pc, error, out>>
             ELSE UNCHANGED <<pc, error, out, procs>>
    /\ UNCHANGED <<cmd, euid, pids, parsed, units, calls, uunits,
                   services, others, userservices, sysservices,
                   raw, name1, name2, procsB, outB, verbose>>

\* The end of the stream: the last process is discarded if it has no files,
\* then the pid filter is applied
ParseEnd ==
    /\ pc = "parse"
    /\ parsed' = DiscardLast(procs)
    /\ procs' = IF pids # {} THEN FilterPids(DiscardLast(procs), pids)
                             ELSE DiscardLast(procs)
    /\ pc' = "ps"
    /\ UNCHANGED <<cmd, euid, error, pids, line, nread, units, calls, uunits,
                   services, others, userservices, sysservices, out,
                   raw, name1, name2, procsB, outB, verbose>>

\* subprocess.run(["ps", "-o", "unit=,uunit="] + pids, check=True) and the
\* zip loop over its output
Ps ==
    /\ pc = "ps"
    /\ LET args == [i \in 1..Len(procs) |-> procs[i].pid]
       IN  \/ /\ Call("ps", <<"-o", "unit=,uunit=">> \o args, {}, FALSE)
              /\ Raise("CalledProcessError")
              /\ UNCHANGED <<units, procs>>
           \/ \E us \in PsOutputs(Len(procs)) :
                 /\ Call("ps", <<"-o", "unit=,uunit=">> \o args, {}, TRUE)
                 /\ units' = us
                 /\ IF \E i \in 1..ZipLen(procs, us) : Len(split(us[i])) # 2
                    THEN Raise("ValueError") /\ procs' = procs
                    ELSE /\ procs' = Correlate(procs, us)
                         /\ pc' = "ret"
                         /\ UNCHANGED <<error, out>>
    /\ UNCHANGED <<cmd, euid, pids, line, nread, parsed, uunits,
                   services, others, userservices, sysservices,
                   raw, name1, name2, procsB, outB, verbose>>

---------------------------------------------------------------------------
(* Ordering and printing *)

\* The characters of the model's strings in code point order
Alphabet == " (),-./0123456789:<=>@ABCDEFGHIJKLMNOPQRSTUVWXYZ_abcdefghijklmnopqrstuvwxyz"

ord(c) == CHOOSE i \in 1..Len(Alphabet) : Char(Alphabet, i) = c

\* a < b on str: at the first position where they differ a has ended or has
\* the smaller character
StrLess(a, b) ==
    \E i \in 1..Len(b) :
       /\ i <= Len(a) + 1
       /\ SubSeq(a, 1, i - 1) = SubSeq(b, 1, i - 1)
       /\ \/ i = Len(a) + 1
          \/ ord(Char(a, i)) < ord(Char(b, i))

\* format(): None prints as "None"
Str(x) == IF x = None THEN "None" ELSE x

Perms(S) ==
    {q \in [1..Cardinality(S) -> S] : \A i, j \in DOMAIN q : i # j => q[i] # q[j]}

\* sorted(set(xs), key=...): set() iterates a set of objects in the order of
\* their hashes, which are their addresses, and sorted() is stable, so the
\* result is any arrangement of the elements in which the keys do not decrease
Sorted(S, key) ==
    {q \in Perms(S) : \A i, j \in DOMAIN q : i < j => ~StrLess(key[q[j]], key[q[i]])}

\* sorted() compares keys as soon as there are two elements, and comparing
\* None raises TypeError
SortFails(S, key) == Cardinality(S) >= 2 /\ \E x \in S : key[x] = None

RECURSIVE Concat(_)
Concat(qs) == IF qs = <<>> THEN <<>> ELSE Head(qs) \o Concat(Tail(qs))

\* " ".join(xs)
RECURSIVE Join(_)
Join(xs) ==
    IF xs = <<>> THEN ""
    ELSE IF Len(xs) = 1 THEN xs[1]
    ELSE xs[1] \o " " \o Join(Tail(xs))

---------------------------------------------------------------------------
(* list_ *)

\* Bucket with the unit test first
Bucket_unitfirst(p) ==
    IF p.unit # None /\ endswith(p.unit, ".service") THEN "services"
    ELSE IF p.uunit # "-" THEN "uunits"
    ELSE "others"

\* The branch of list_'s loop a process takes
Bucket(p) ==
    IF p.uunit # "-" THEN "uunits"
    ELSE IF endswith(p.unit, ".service") THEN "services"
    ELSE "others"

\* if not user in d: d[user] = []; d[user].append(i)
DictAppend(d, user, i) ==
    IF \E k \in DOMAIN d : d[k].user = user
    THEN [k \in DOMAIN d |->
            IF d[k].user = user THEN [d[k] EXCEPT !.ps = Append(@, i)] ELSE d[k]]
    ELSE Append(d, [user |-> user, ps |-> <<i>>])

\* The loop of list_ over procs[i..]: processes are held by reference, here
\* by their index in procs
RECURSIVE Classify(_, _, _)
Classify(ps, i, b) ==
    IF i > Len(ps) THEN b
    ELSE Classify(ps, i + 1,
            IF Bucket(ps[i]) = "uunits"
            THEN [b EXCEPT !.uunits = DictAppend(@, ps[i].user, i)]
            ELSE IF Bucket(ps[i]) = "services"
            THEN [b EXCEPT !.services = Append(@, i)]
            ELSE [b EXCEPT !.others = DictAppend(@, ps[i].user, i)])

NoBuckets == [uunits |-> <<>>, services |-> <<>>, others |-> <<>>]

\* warn(desc), without the colour escapes
warn(desc) == "The following " \o desc \o " may be running outdated code:"

\* item(name, files, warning), without the colour escapes
item(name, files, warning, vb) ==
    <<"* " \o name \o (IF warning # "" THEN " (" \o warning \o ")" ELSE "")>>
    \o (IF vb THEN [k \in DOMAIN files |-> "  * " \o files[k].name] ELSE <<>>)

\* NO_AUTORESTART.get(unit, "")
Reason(unit) ==
    IF unit = "dbus.service" THEN "reboot required"
    ELSE IF unit = "systemd-logind.service" THEN "will log all users out"
    ELSE ""

ServiceItem(p, vb) ==
    item(Str(p.unit) \o " (" \o Str(p.command) \o " (" \o Str(p.pid) \o "))",
         p.files, Reason(p.unit), vb)

UunitItem(p, vb) ==
    item(Str(p.uunit) \o " (" \o Str(p.command) \o " (" \o Str(p.pid) \o "))",
         p.files, "", vb)

OtherItem(p, vb) ==
    item(Str(p.command) \o " (" \o Str(p.pid) \o ")", p.files, "", vb)

\* A run of a printing loop: what it printed, and whether sorted() raised
Printed(text) == [text |-> text, failed |-> FALSE]

Failed(text) == [text |-> text, failed |-> TRUE]

Then(r1, r2) ==
    IF r1.failed THEN r1 ELSE [text |-> r1.text \o r2.text, failed |-> r2.failed]

\* The services section: every way list_ can print it
ServicesRun(ps, b, vb) ==
    IF b = <<>> THEN {Printed(<<>>)}
    ELSE IF SortFails(Range(b), [i \in Range(b) |-> ps[i].unit])
    THEN {Failed(<<warn("services")>>)}
    ELSE {Printed(<<warn("services")>>
                  \o Concat([k \in DOMAIN q |-> ServiceItem(ps[q[k]], vb)])
                  \o <<"">>) :
          q \in Sorted(Range(b), [i \in Range(b) |-> ps[i].unit])}

\* One section per user, in the dict's insertion order
RECURSIVE UunitsRun(_, _, _)
UunitsRun(ps, d, vb) ==
    IF d = <<>> THEN {Printed(<<>>)}
    ELSE IF SortFails(Range(Head(d).ps), [i \in Range(Head(d).ps) |-> ps[i].uunit])
    THEN {Failed(<<warn("units for user " \o Str(Head(d).user))>>)}
    ELSE {Then(Printed(<<warn("units for user " \o Str(Head(d).user))>>
                       \o Concat([k \in DOMAIN q |-> UunitItem(ps[q[k]], vb)])
                       \o <<"">>), rest) :
          q \in Sorted(Range(Head(d).ps), [i \in Range(Head(d).ps) |-> ps[i].uunit]),
          rest \in UunitsRun(ps, Tail(d), vb)}

RECURSIVE OthersRun(_, _, _)
OthersRun(ps, d, vb) ==
    IF d = <<>> THEN {Printed(<<>>)}
    ELSE IF SortFails(Range(Head(d).ps), [i \in Range(Head(d).ps) |-> ps[i].command])
    THEN {Failed(<<warn("processes for user " \o Str(Head(d).user))>>)}
    ELSE {Then(Printed(<<warn("processes for user " \o Str(Head(d).user))>>
                       \o Concat([k \in DOMAIN q |-> OtherItem(ps[q[k]], vb)])
                       \o <<"">>), rest) :
          q \in Sorted(Range(Head(d).ps), [i \in Range(Head(d).ps) |-> ps[i].command]),
          rest \in OthersRun(ps, Tail(d), vb)}

\* Every way the three printing loops of list_ can run
ReportRun(ps, b, vb) ==
    {Then(r1, Then(r2, r3)) : r1 \in ServicesRun(ps, b.services, vb),
                              r2 \in UunitsRun(ps, b.uunits, vb),
                              r3 \in OthersRun(ps, b.others, vb)}

\* The kernel check, the call of getprocs
list_enter ==
    /\ pc = "main"
    /\ cmd = "list"
    /\ \E kernelFound \in BOOLEAN :
          out' = IF kernelFound THEN out
                 ELSE out \o <<"The running kernel was not found in the file system, it may have been updated", "">>
    /\ pc' = "lsof"
    /\ UNCHANGED <<cmd, euid, error, pids, line, nread, procs, parsed, units, calls,
                   uunits, services, others, userservices, sysservices,
                   raw, name1, name2, procsB, outB, verbose>>

\* The classification loop
list_classify ==
    /\ pc = "ret"
    /\ cmd = "list"
    /\ LET b == Classify(procs, 1, NoBuckets)
       IN  /\ uunits' = b.uunits
           /\ services' = b.services
           /\ others' = b.others
    /\ pc' = "report"
    /\ UNCHANGED <<cmd, euid, error, pids, line, nread, procs, parsed, units, calls,
                   userservices, sysservices, out, raw, name1, name2, procsB, outB, verbose>>

\* The three printing loops
list_report ==
    /\ pc = "report"
    /\ \E v \in BOOLEAN :
       \E r \in ReportRun(procs, [uunits |-> uunits, services |-> services,
                                  others |-> others], v) :
          /\ verbose' = v
          /\ out' = out \o r.text
          /\ pc' = IF r.failed THEN "crash" ELSE "done"
          /\ error' = IF r.failed THEN "TypeError" ELSE error
    /\ UNCHANGED <<cmd, euid, pids, line, nread, procs, parsed, units, calls,
                   uunits, services, others, userservices, sysservices,
                   raw, name1, name2, procsB, outB>>

---------------------------------------------------------------------------
(* restart *)

\* proc.uunit.endswith raises AttributeError on a process ps never described
SetsFail(ps) == \E i \in DOMAIN ps : ps[i].uunit = None

\* AddUnits with two independent tests instead of if / elif
AddUnits_noelif(s, p) ==
    LET s1 == IF p.uunit # "-" /\ endswith(p.uunit, ".service")
              THEN [s EXCEPT !.userservices = @ \cup {p.uunit}]
              ELSE s
    IN  IF endswith(p.unit, ".service") /\ p.unit \notin NO_AUTORESTART
        THEN [s1 EXCEPT !.services = @ \cup {p.unit}]
        ELSE s1

\* The body of restart's loop: the sets after looking at process p
AddUnits(s, p) ==
    IF p.uunit # "-"
    THEN IF endswith(p.uunit, ".service")
         THEN [s EXCEPT !.userservices = @ \cup {p.uunit}]
         ELSE s
    ELSE IF endswith(p.unit, ".service")
         THEN IF p.unit \notin NO_AUTORESTART
              THEN [s EXCEPT !.services = @ \cup {p.unit}]
              ELSE s
         ELSE s

\* restart's loop over procs[i..]
RECURSIVE RestartLoop(_, _, _)
RestartLoop(ps, i, s) ==
    IF i > Len(ps) THEN s ELSE RestartLoop(ps, i + 1, AddUnits(s, ps[i]))

NoUnits == [userservices |-> {}, services |-> {}]

\* Scope without the euid tests
Scope_anyuid(uid, sys, user) ==
    IF sys # {} THEN "system"
    ELSE IF user # {} THEN "user"
    ELSE None

\* The scope restart picks, or None
Scope(uid, sys, user) ==
    IF uid = 0 /\ sys # {} THEN "system"
    ELSE IF uid # 0 /\ user # {} THEN "user"
    ELSE None

\* subprocess.run(command) without check=True
Unchecked(ok, next) == pc' = next /\ error' = error

\* subprocess.run(command, check=True): a non-zero exit status raises
\* CalledProcessError, which restart does not catch
Checked(ok, next) ==
    IF ok THEN pc' = next /\ error' = error
          ELSE pc' = "crash" /\ error' = "CalledProcessError"

\* ["systemctl"] or ["systemctl", "--user"]
Systemctl(scope) == IF scope = "user" THEN <<"--user">> ELSE <<>>

restart_enter ==
    /\ pc = "main"
    /\ cmd = "restart"
    /\ pc' = "lsof"
    /\ UNCHANGED <<cmd, euid, error, pids, line, nread, procs, parsed, units, calls,
                   uunits, services, others, userservices, sysservices, out,
                   raw, name1, name2, procsB, outB, verbose>>

\* The loop that fills the two sets
restart_sets ==
    /\ pc = "ret"
    /\ cmd = "restart"
    /\ IF SetsFail(procs)
       THEN Raise("AttributeError") /\ UNCHANGED <<userservices, sysservices>>
       ELSE LET s == RestartLoop(procs, 1, NoUnits)
            IN  /\ userservices' = s.userservices
                /\ sysservices' = s.services
                /\ pc' = IF Scope(euid, s.services, s.userservices) = None
                         THEN "done" ELSE "reload"
                /\ UNCHANGED <<error, out>>
    /\ UNCHANGED <<cmd, euid, pids, line, nread, procs, parsed, units, calls,
                   uunits, services, others, raw, name1, name2, procsB, outB, verbose>>

\* systemctl [--user] daemon-reload
restart_reload ==
    /\ pc = "reload"
    /\ LET scope == Scope(euid, sysservices, userservices)
           command == Systemctl(scope) \o <<"daemon-reload">>
       IN  \E ok \in BOOLEAN :
              /\ Call("systemctl", command, {}, ok)
              /\ Checked(ok, "restart")
              /\ out' = Append(out, Join(<<"systemctl">> \o command))
    /\ UNCHANGED <<cmd, euid, pids, line, nread, procs, parsed, units,
                   uunits, services, others, userservices, sysservices,
                   raw, name1, name2, procsB, outB, verbose>>

\* systemctl [--user] restart UNIT...: list(set) puts the units in any order
restart_units ==
    /\ pc = "restart"
    /\ LET scope == Scope(euid, sysservices, userservices)
           chosen == IF scope = "system" THEN sysservices ELSE userservices
       IN  \E ok \in BOOLEAN, q \in Perms(chosen) :
              /\ Call("systemctl", Systemctl(scope) \o <<"restart">>, chosen, ok)
              /\ out' = Append(out, Join(<<"systemctl">> \o Systemctl(scope)
                                          \o <<"restart">> \o q))
              /\ Checked(ok, "done")
    /\ UNCHANGED <<cmd, euid, pids, line, nread, procs, parsed, units,
                   uunits, services, others, userservices, sysservices,
                   raw, name1, name2, procsB, outB, verbose>>

---------------------------------------------------------------------------
(* info *)

\* pgrep REGEX [-u EUID]; no match prints a message and exits with status 1
info_enter ==
    /\ pc = "main"
    /\ cmd = "info"
    /\ LET prgrep == IF euid # 0 THEN <<"REGEX", "-u", "EUID">> ELSE <<"REGEX">>
       IN  \/ /\ Call("pgrep", prgrep, {}, FALSE)
              /\ out' = Append(out, "No process matched REGEX.")
              /\ pc' = "exit1"
              /\ pids' = pids
           \/ \E found \in PgrepResults :
                 /\ Call("pgrep", prgrep, {}, TRUE)
                 /\ pids' = found
                 /\ pc' = "lsof"
                 /\ out' = out
    /\ UNCHANGED <<cmd, euid, error, line, nread, procs, parsed, units,
                   uunits, services, others, userservices, sysservices,
                   raw, name1, name2, procsB, outB, verbose>>

\* The distinct names of the files of the processes
FileNames(ps) ==
    UNION {{ps[i].files[k].name : k \in DOMAIN ps[i].files} : i \in DOMAIN ps}

\* files = sorted(set(f.name ...)) and the report on them
info_report ==
    /\ pc = "ret"
    /\ cmd = "info"
    /\ \E files \in Sorted(FileNames(procs), [f \in FileNames(procs) |-> f]) :
          out' = IF files # <<>>
                 THEN out \o <<"REGEX is using the following outdated binaries:">>
                          \o [k \in DOMAIN files |-> "* " \o files[k]]
                 ELSE Append(out, "REGEX appears to be running updated binaries.")
    /\ pc' = "done"
    /\ UNCHANGED <<cmd, euid, error, pids, line, nread, procs, parsed, units, calls,
                   uunits, services, others, userservices, sysservices,
                   raw, name1, name2, procsB, outB, verbose>>

---------------------------------------------------------------------------
(* One run of the program *)

Init ==
    /\ cmd \in Commands
    /\ euid \in {0, 1000}
    /\ pc = "main"
    /\ error = None
    /\ pids = {}
    /\ line = <<>>
    /\ nread = 0
    /\ procs = <<>>
    /\ parsed = <<>>
    /\ units = <<>>
    /\ calls = <<>>
    /\ uunits = <<>>
    /\ services = <<>>
    /\ others = <<>>
    /\ userservices = {}
    /\ sysservices = {}
    /\ out = <<>>
    /\ raw = ""
    /\ name1 = ""
    /\ name2 = ""
    /\ procsB = <<>>
    /\ outB = <<>>
    /\ verbose = FALSE

Next ==
    \/ list_enter
    \/ restart_enter
    \/ info_enter
    \/ Lsof
    \/ ParseLine
    \/ ParseEnd
    \/ Ps
    \/ list_classify
    \/ list_report
    \/ restart_sets
    \/ restart_reload
    \/ restart_units
    \/ info_report

Spec == Init /\ [][Next]_vars

---------------------------------------------------------------------------
(* File.__init__ on raw paths, applied to its own result *)

PathBases == {"/usr/a.so", "/usr/a (b)", "/usr/lib (deleted)/x", "/tmp/x"}

PathGroups == {" (deleted)", " (path dev=8,1)", " (path dev=,1)", "(deleted)"}

\* "".join(xs)
RECURSIVE Cat(_)
Cat(xs) == IF xs = <<>> THEN "" ELSE Head(xs) \o Cat(Tail(xs))

\* A base followed by up to MaxGroups groups, some of them annotations
RawPaths ==
    {b \o Cat(gs) : b \in PathBases, gs \in SeqsUpTo(PathGroups, MaxGroups)}

StripInit ==
    /\ raw \in RawPaths
    /\ name1 = ""
    /\ name2 = ""
    /\ pc = "raw"
    /\ cmd = "list"
    /\ euid = 0
    /\ error = None
    /\ pids = {}
    /\ line = <<>>
    /\ nread = 0
    /\ procs = <<>>
    /\ parsed = <<>>
    /\ units = <<>>
    /\ calls = <<>>
    /\ uunits = <<>>
    /\ services = <<>>
    /\ others = <<>>
    /\ userservices = {}
    /\ sysservices = {}
    /\ out = <<>>
    /\ procsB = <<>>
    /\ outB = <<>>
    /\ verbose = FALSE

\* File({"n": raw}).name
StripOnce ==
    /\ pc = "raw"
    /\ name1' = File([k \in {"n"} |-> raw]).name
    /\ pc' = "stripped"
    /\ UNCHANGED <<cmd, euid, error, pids, line, nread, procs, parsed, units, calls,
                   uunits, services, others, userservices, sysservices, out,
                   raw, name2, procsB, outB, verbose>>

\* File({"n": name1}).name
StripAgain ==
    /\ pc = "stripped"
    /\ name2' = File([k \in {"n"} |-> name1]).name
    /\ pc' = "restripped"
    /\ UNCHANGED <<cmd, euid, error, pids, line, nread, procs, parsed, units, calls,
                   uunits, services, others, userservices, sysservices, out,
                   raw, name1, procsB, outB, verbose>>

StripNext == StripOnce \/ StripAgain

SpecStrip == StripInit /\ [][StripNext]_vars

---------------------------------------------------------------------------
(* list_ on a getprocs result and on a permutation of it *)

AFile == <<[name |-> "/usr/a.so"]>>

\* Correlated processes: two of one service, two user units of one user,
\* and two bare processes of two users
ReportProcs ==
    {[pid |-> "1", command |-> "httpd", user |-> "root",
      unit |-> "a.service", uunit |-> "-", files |-> AFile],
     [pid |-> "2", command |-> "httpd", user |-> "root",
      unit |-> "a.service", uunit |-> "-", files |-> AFile],
     [pid |-> "3", command |-> "bash", user |-> "alice",
      unit |-> "user@1.service", uunit |-> "a.service", files |-> AFile],
     [pid |-> "4", command |-> "bash", user |-> "alice",
      unit |-> "session-2.scope", uunit |-> "-", files |-> AFile],
     [pid |-> "5", command |-> "sh", user |-> "bob",
      unit |-> "session-3.scope", uunit |-> "-", files |-> AFile]}

\* The sequences of 1..n distinct elements of S
Arrangements(S, n) ==
    UNION {{q \in [1..k -> S] : \A i, j \in 1..k : i # j => q[i] # q[j]} : k \in 1..n}

IsPermutation(a, b) ==
    /\ Len(a) = Len(b)
    /\ \E f \in Perms(DOMAIN a) : \A i \in DOMAIN a : b[i] = a[f[i]]

ReportInit ==
    /\ procs \in Arrangements(ReportProcs, MaxProcs)
    /\ procsB \in {q \in Arrangements(ReportProcs, MaxProcs) : IsPermutation(procs, q)}
    /\ verbose \in BOOLEAN
    /\ pc = "first"
    /\ cmd = "list"
    /\ euid = 0
    /\ error = None
    /\ pids = {}
    /\ line = <<>>
    /\ nread = 0
    /\ parsed = <<>>
    /\ units = <<>>
    /\ calls = <<>>
    /\ uunits = <<>>
    /\ services = <<>>
    /\ others = <<>>
    /\ userservices = {}
    /\ sysservices = {}
    /\ out = <<>>
    /\ outB = <<>>
    /\ raw = ""
    /\ name1 = ""
    /\ name2 = ""

\* list_ from the classification loop on, for procs
ReportFirst ==
    /\ pc = "first"
    /\ \E r \in ReportRun(procs, Classify(procs, 1, NoBuckets), verbose) :
          out' = r.text
    /\ pc' = "second"
    /\ UNCHANGED <<cmd, euid, error, pids, line, nread, procs, parsed, units, calls,
                   uunits, services, others, userservices, sysservices,
                   raw, name1, name2, procsB, outB, verbose>>

\* list_ from the classification loop on, for procsB
ReportSecond ==
    /\ pc = "second"
    /\ \E r \in ReportRun(procsB, Classify(procsB, 1, NoBuckets), verbose) :
          outB' = r.text
    /\ pc' = "reported"
    /\ UNCHANGED <<cmd, euid, error, pids, line, nread, procs, parsed, units, calls,
                   uunits, services, others, userservices, sysservices, out,
                   raw, name1, name2, procsB, verbose>>

ReportNext == ReportFirst \/ ReportSecond

SpecReport == ReportInit /\ [][ReportNext]_vars

---------------------------------------------------------------------------
(* Properties *)

\* getprocs is past its parsing loop and has not raised
Parsed == pc \in {"ps", "ret", "report", "reload", "restart", "done"}

\* getprocs has returned to its caller
Returned == pc \in {"ret", "report", "reload", "restart", "done"}

\* C1: no process with an empty file sequence is in the parser's result,
\* neither before the pid filter (parsed) nor after it (procs)
NoFilelessProcess ==
    /\ \A i \in DOMAIN parsed : parsed[i].files # <<>>
    /\ Parsed => \A i \in DOMAIN procs : procs[i].files # <<>>

\* C1 witness: the stream ended with a process line, so the last process had
\* no files and was discarded, and an earlier process was kept
LastProcessDiscarded ==
    /\ pc = "ps"
    /\ line # <<>>
    /\ Char(line[1], 1) = "p"
    /\ Len(parsed) = 1

\* C2: when ps prints a number of lines other than the number of pids it was
\* given, getprocs does not return
MismatchIsFatal ==
    Returned => Len(units) = Len(procs)

\* C3: neither of restart's sets, and no systemctl restart call, names a
\* unit of the no-autorestart table
NoAutorestartExcluded ==
    /\ (userservices \cup sysservices) \cap NO_AUTORESTART = {}
    /\ \A i \in DOMAIN calls : calls[i].units \cap NO_AUTORESTART = {}

SystemCalls == {i \in DOMAIN calls :
    calls[i].tool = "systemctl" /\ "--user" \notin Range(calls[i].argv)}

UserCalls == {i \in DOMAIN calls :
    calls[i].tool = "systemctl" /\ "--user" \in Range(calls[i].argv)}

\* restart has computed its sets and has made every call it is going to make
RestartOver ==
    /\ cmd = "restart"
    /\ \/ pc = "done"
       \/ pc = "crash" /\ calls[Len(calls)].tool = "systemctl"

\* C4: systemctl is called at system scope exactly when euid is 0 and the
\* system set is non-empty, with --user exactly when euid is not 0 and the
\* user set is non-empty, and never at both scopes in one run
ScopeSelection ==
    /\ SystemCalls # {} => euid = 0 /\ sysservices # {}
    /\ UserCalls # {} => euid # 0 /\ userservices # {}
    /\ SystemCalls = {} \/ UserCalls = {}
    /\ RestartOver => /\ euid = 0 /\ sysservices # {} => SystemCalls # {}
                      /\ euid # 0 /\ userservices # {} => UserCalls # {}

\* C4 witness: root with both sets non-empty has finished a restart
RootRestarted ==
    /\ cmd = "restart"
    /\ pc = "done"
    /\ euid = 0
    /\ sysservices # {}
    /\ userservices # {}
    /\ Len(calls) = 4

\* restart's loop has run to its end
SetsComputed == cmd = "restart" /\ pc \in {"reload", "restart", "done"}

\* C5 as stated: the system set is the units ending in .service outside the
\* table, the user set is the uunits other than "-" ending in .service, and
\* the two sets are disjoint
RestartSetsAsClaimed ==
    SetsComputed =>
       /\ sysservices = {procs[i].unit : i \in {k \in DOMAIN procs :
             /\ endswith(procs[k].unit, ".service")
             /\ procs[k].unit \notin NO_AUTORESTART}}
       /\ userservices = {procs[i].uunit : i \in {k \in DOMAIN procs :
             /\ procs[k].uunit # "-"
             /\ endswith(procs[k].uunit, ".service")}}
       /\ sysservices \cap userservices = {}

\* C5 amended: only a process whose uunit is "-" gives its unit to the system
\* set, so no process gives a name to both sets
RestartSetsExact ==
    SetsComputed =>
       /\ sysservices = {procs[i].unit : i \in {k \in DOMAIN procs :
             /\ procs[k].uunit = "-"
             /\ endswith(procs[k].unit, ".service")
             /\ procs[k].unit \notin NO_AUTORESTART}}
       /\ userservices = {procs[i].uunit : i \in {k \in DOMAIN procs :
             /\ procs[k].uunit # "-"
             /\ endswith(procs[k].uunit, ".service")}}

\* C5 witness: a process of a user unit whose unit ends in .service is left
\* out of the system set, and one name is in both sets
SameNameInBothSets ==
    /\ SetsComputed
    /\ sysservices \cap userservices # {}
    /\ \E i \in DOMAIN procs :
          /\ procs[i].uunit # "-"
          /\ endswith(procs[i].unit, ".service")
          /\ procs[i].unit \notin sysservices

\* The processes a dict of list_ holds
Held(d) == UNION {Range(d[k].ps) : k \in DOMAIN d}

\* The places of list_'s three collections that hold process i
Places(i) ==
    {<<"services", k, k>> : k \in {x \in DOMAIN services : services[x] = i}}
    \cup {w \in {"uunits"} \X (DOMAIN uunits) \X (1..Len(procs)) :
             w[3] \in DOMAIN uunits[w[2]].ps /\ uunits[w[2]].ps[w[3]] = i}
    \cup {w \in {"others"} \X (DOMAIN others) \X (1..Len(procs)) :
             w[3] \in DOMAIN others[w[2]].ps /\ others[w[2]].ps[w[3]] = i}

\* C6: every process is in exactly one bucket, the one of the first rule it
\* matches, under its owning user
ClassifyPartition ==
    (cmd = "list" /\ pc \in {"report", "done"}) =>
       /\ Held(uunits) \cup Range(services) \cup Held(others) = DOMAIN procs
       /\ \A i \in DOMAIN procs :
             /\ Cardinality(Places(i)) = 1
             /\ i \in Held(uunits) <=> procs[i].uunit # "-"
             /\ i \in Range(services) <=>
                   procs[i].uunit = "-" /\ endswith(procs[i].unit, ".service")
             /\ i \in Held(others) <=>
                   procs[i].uunit = "-" /\ ~endswith(procs[i].unit, ".service")
       /\ \A u \in DOMAIN uunits : \A i \in Range(uunits[u].ps) :
             procs[i].user = uunits[u].user
       /\ \A u \in DOMAIN others : \A i \in Range(others[u].ps) :
             procs[i].user = others[u].user

\* C6 witness: a process of a user unit whose unit ends in .service went to
\* the user units, next to a process in the services
FirstRuleWins ==
    /\ cmd = "list"
    /\ pc = "report"
    /\ services # <<>>
    /\ \E i \in Held(uunits) : endswith(procs[i].unit, ".service")

\* The three conditions on a resolved path
Qualifies(n) ==
    /\ startswith(n, "/usr")
    /\ basename(n) \notin FILE_BLACKLIST
    /\ splitext1(n) \notin EXT_BLACKLIST

AttachedFilesQualify ==
    \A i \in DOMAIN procs : \A k \in DOMAIN procs[i].files :
       Qualifies(procs[i].files[k].name)

\* A step that reads a file line with a name
FileLineStep ==
    (/\ pc = "parse"
     /\ nread' = nread + 1
     /\ Char(line'[1], 1) = "f"
     /\ ~DecodeFails(line')
     /\ Get(decode_nuld(line'), "n") # None) =>
       \A n \in {PATH_REGEX(Get(decode_nuld(line'), "n"))} :
          IF Qualifies(n) /\ procs # <<>>
          THEN /\ pc' = "parse"
               /\ Len(procs') = Len(procs)
               /\ \A i \in 1..(Len(procs) - 1) : procs'[i] = procs[i]
               /\ procs'[Len(procs)] =
                     [procs[Len(procs)] EXCEPT !.files = Append(@, [name |-> n])]
          ELSE /\ procs' = procs
               /\ Qualifies(n) => pc' = "crash"

\* A step that reads a process line: the process it starts is the last one
ProcessLineStep ==
    (/\ pc = "parse"
     /\ nread' = nread + 1
     /\ Char(line'[1], 1) = "p"
     /\ ~DecodeFails(line')) =>
       /\ procs' # <<>>
       /\ procs'[Len(procs')] = Process(decode_nuld(line'))

\* C7: every attached file has a path under /usr with no excluded name or
\* extension (procs starts empty, so it is enough that every step that
\* changes procs leaves only such files); a file line that qualifies is
\* appended to the process started last, and any other file line changes
\* nothing
FilesFiltered ==
    [][/\ procs' # procs => AttachedFilesQualify'
       /\ FileLineStep
       /\ ProcessLineStep]_vars

\* C7 witness: a dot-file under /usr, whose extension is empty, has just been
\* appended to a process that already had a file
DotFileAttached ==
    /\ pc = "parse"
    /\ line = <<"fDEL", "n/usr/.cache (path dev=8,1)">>
    /\ procs # <<>>
    /\ Len(procs[Len(procs)].files) = 2
    /\ procs[Len(procs)].files[2].name = "/usr/.cache"

\* C8: list_ prints the same text for two orders of the same processes
ReportIgnoresOrder ==
    pc = "reported" => out = outB

\* The number of annotation groups a string ends with
RECURSIVE TrailingGroups(_)
TrailingGroups(s) ==
    LET cuts == {i \in 0..(Len(s) - 1) : MatchesAnnotation(SubSeq(s, i + 1, Len(s)))}
    IN  IF cuts = {} THEN 0 ELSE 1 + TrailingGroups(SubSeq(s, 1, Max(cuts)))

\* C9 as stated: stripping an already stripped path returns it unchanged
StripIdempotent ==
    pc = "restripped" => name2 = name1

\* C9 amended: one application removes exactly the last annotation group, so
\* a second application changes nothing when the raw path ends with at most
\* one group, and removes one more group when it ends with two or more
StripsOneGroup ==
    /\ pc \in {"stripped", "restripped"} =>
          IF TrailingGroups(raw) = 0
          THEN name1 = raw
          ELSE /\ TrailingGroups(name1) = TrailingGroups(raw) - 1
               /\ Len(name1) < Len(raw)
               /\ startswith(raw, name1)
               /\ MatchesAnnotation(SubSeq(raw, Len(name1) + 1, Len(raw)))
    /\ pc = "restripped" =>
          /\ TrailingGroups(raw) <= 1 => name2 = name1
          /\ TrailingGroups(raw) >= 2 =>
                /\ name2 # name1
                /\ TrailingGroups(name2) = TrailingGroups(raw) - 2

\* C9 witness: a raw path ending with one annotation was stripped twice
StrippedTwice ==
    /\ pc = "restripped"
    /\ TrailingGroups(raw) = 1
    /\ name1 # raw
    /\ name2 = name1

Last(q) == q[Len(q)]

\* C10: lsof, ps, daemon-reload and restart run in this order, each only
\* after the one before it succeeded; after a failed lsof nothing is parsed;
\* a restart follows a successful daemon-reload of the same scope
CallsInOrder ==
    /\ \A i \in DOMAIN calls :
          /\ i > 1 => calls[i - 1].ok
          /\ calls[i].tool = "lsof" => i = 1 \/ calls[i - 1].tool = "pgrep"
          /\ calls[i].tool = "ps" => i > 1 /\ calls[i - 1].tool = "lsof"
          /\ (calls[i].tool = "systemctl" /\ Last(calls[i].argv) = "daemon-reload") =>
                i > 1 /\ calls[i - 1].tool = "ps"
          /\ (calls[i].tool = "systemctl" /\ Last(calls[i].argv) = "restart") =>
                /\ i > 1
                /\ calls[i - 1].tool = "systemctl"
                /\ Last(calls[i - 1].argv) = "daemon-reload"
                /\ ("--user" \in Range(calls[i].argv))
                      <=> ("--user" \in Range(calls[i - 1].argv))
    /\ (\A i \in DOMAIN calls : calls[i].tool = "lsof" => ~calls[i].ok) =>
          nread = 0 /\ procs = <<>>
    /\ (\A i \in DOMAIN calls : calls[i].tool = "ps" => ~calls[i].ok) =>
          units = <<>> /\ \A i \in DOMAIN procs : procs[i].unit = None

\* C10 witness: daemon-reload failed and the run ended without a restart
ReloadFailed ==
    /\ pc = "crash"
    /\ Len(calls) = 3
    /\ Last(calls).tool = "systemctl"
    /\ ~Last(calls).ok

====
